---------------------------- MODULE Spec2Model ----------------------------
(***************************************************************************)
(* Accessibility-aware A* routing (src/routing.code).                      *)
(*                                                                         *)
(* Numbers.  The code computes in floating point.  Every penalty factor is *)
(* a rational with a small denominator (surface /10, slope /10, the        *)
(* wheelchair extra 3/2, curb /5, width /100), so a weight is represented  *)
(* exactly as an integer multiple of 1/WeightScale metres.  gScore, fScore *)
(* and totalWeight are held in that unit; distances stay in metres.        *)
(*                                                                         *)
(* Coordinates.  The model's nodes all lie on one meridian (lng = 0) and   *)
(* lat is measured in metres of arc, for which the haversine formula gives *)
(* exactly R * |dLat|, i.e. |lat2 - lat1| metres.                          *)
(***************************************************************************)
EXTENDS Integers, Sequences, FiniteSets, TLC

VARIABLES
    nodes,        \* the node list handed to buildAdjacencyList and to the query
    edges,        \* the edge list handed to buildAdjacencyList
    graph,        \* the adjacency index (Map nodeId -> list of {to, edge})
    profile,      \* the query's accessibility profile
    startId,      \* the query's start node id
    endId,        \* the query's end node id
    pc,           \* "raw" | "ready" | "search" | "returned" | "threw" | "edge" | "evaluated"
                  \* | "score" | "scored"
    openSet,      \* findAccessibleRoute: array of {id, fScore}
    cameFrom,     \* findAccessibleRoute: Map nodeId -> nodeId
    gScore,       \* findAccessibleRoute: Map nodeId -> cost
    edgeUsed,     \* findAccessibleRoute: Map nodeId -> edge
    extractions,  \* number of openSet.shift() calls made by the query
    result,       \* the value findAccessibleRoute returned
    callEdge,     \* argument of a direct call of the per-edge functions
    callOut,      \* what the per-edge functions returned for (callEdge, profile)
    second        \* a second findAccessibleRoute call on the same graph, nodes and
                  \* endpoints: its profile and its own locals (pc, openSet, ...)

vars == <<nodes, edges, graph, profile, startId, endId, pc, openSet, cameFrom,
          gScore, edgeUsed, extractions, result, callEdge, callOut, second>>

-----------------------------------------------------------------------------
(* Bounds of the model *)

MaxDist == 2      \* edge distances are drawn from 0..MaxDist (metres)
MaxLat  == 3      \* a node's latitude is drawn from 0..MaxLat (metres of arc)

MaxEdges == 2    \* a directly indexed edge list has at most MaxEdges edges
MaxRouteLen == 8 \* a directly scored edge list has at most MaxRouteLen edges

NodeIds   == {1, 2, 3, 4}   \* ids of the nodes in the node list
UnknownId == Cardinality(NodeIds) + 1   \* an id that is in no node list

-----------------------------------------------------------------------------
(* Helpers for JavaScript Map and Array values *)

EmptyMap == << >>

MapHas(m, k) == k \in DOMAIN m

MapSet(m, k, v) == [x \in (DOMAIN m) \cup {k} |-> IF x = k THEN v ELSE m[x]]

Abs(x) == IF x < 0 THEN -x ELSE x

RECURSIVE SumSeq(_)
SumSeq(s) == IF s = << >> THEN 0 ELSE Head(s) + SumSeq(Tail(s))

-----------------------------------------------------------------------------
(* Value domains *)

KnownSurfaces == {"asphalt", "concrete", "wood", "gravel", "cobblestone", "stone", "sand"}

Surfaces == KnownSurfaces \cup {"dirt"}

NoTag == "none"     \* edge.temporary is undefined

Temporaries == {NoTag, "repair", "event"}

MobilityTypes == {"wheelchair", "wheelchair_assisted", "stroller", "crutches"}

MkEdge(f, t, d, sf, c, r, sl, w, tmp) ==
    [from |-> f, to |-> t, distance |-> d, surface |-> sf, curb |-> c,
     hasRamp |-> r, slope |-> sl, width |-> w, temporary |-> tmp]

MkProfile(m, c, s, w) ==
    [mobilityType |-> m, maxCurbHeight |-> c, maxSlope |-> s, minWidth |-> w]

defaultProfile == MkProfile("wheelchair", 5, 8, 90)

-----------------------------------------------------------------------------
(* src/routing.code: per-edge functions *)

calculateDistance(lat1, lng1, lat2, lng2) == Abs(lat2 - lat1)

\* the curb limit compared with >= instead of >
isEdgeAccessible_GeCurb(edge, prof) ==
    ~ \/ edge.curb >= prof.maxCurbHeight /\ ~edge.hasRamp
      \/ edge.slope > prof.maxSlope
      \/ edge.width < prof.minWidth
      \/ edge.temporary = "repair" /\ prof.mobilityType = "wheelchair"

isEdgeAccessible(edge, prof) ==
    IF edge.curb > prof.maxCurbHeight /\ ~edge.hasRamp THEN FALSE
    ELSE IF edge.slope > prof.maxSlope THEN FALSE
    ELSE IF edge.width < prof.minWidth THEN FALSE
    ELSE IF edge.temporary = "repair" /\ prof.mobilityType = "wheelchair" THEN FALSE
    ELSE TRUE

\* the surfacePenalty table, in tenths; `|| 1.2` for a surface not in it
surfacePenalty(surface) ==
    CASE surface = "asphalt"     -> 10
      [] surface = "concrete"    -> 10
      [] surface = "wood"        -> 11
      [] surface = "gravel"      -> 15
      [] surface = "cobblestone" -> 18
      [] surface = "stone"       -> 20
      [] surface = "sand"        -> 25
      [] OTHER                   -> 12

\* denominators of the factors: surface 10, slope 10, wheelchair 2, curb 5, width 100
WeightScale == 10 * 10 * 2 * 5 * 100

\* the slope penalty applied to downhill grades as well
calculateEdgeWeight_SignedSlope(edge, prof) ==
    edge.distance
    * surfacePenalty(edge.surface)
    * (10 + edge.slope)
    * (IF prof.mobilityType = "wheelchair" /\ edge.slope > 5 THEN 3 ELSE 2)
    * (IF edge.curb > 0 /\ ~edge.hasRamp THEN 5 + edge.curb ELSE 5)
    * (IF edge.width < 150 THEN 100 + (150 - edge.width) ELSE 100)
    * (IF edge.temporary # NoTag THEN 2 ELSE 1)

\* the wheelchair extra applied from slope 5 on
calculateEdgeWeight_ExtraAtFive(edge, prof) ==
    edge.distance
    * surfacePenalty(edge.surface)
    * (IF edge.slope > 0 THEN 10 + edge.slope ELSE 10)
    * (IF edge.slope > 0 /\ prof.mobilityType = "wheelchair" /\ edge.slope >= 5 THEN 3 ELSE 2)
    * (IF edge.curb > 0 /\ ~edge.hasRamp THEN 5 + edge.curb ELSE 5)
    * (IF edge.width < 150 THEN 100 + (150 - edge.width) ELSE 100)
    * (IF edge.temporary # NoTag THEN 2 ELSE 1)

calculateEdgeWeight(edge, prof) ==
    edge.distance
    * surfacePenalty(edge.surface)
    * (IF edge.slope > 0 THEN 10 + edge.slope ELSE 10)
    * (IF edge.slope > 0 /\ prof.mobilityType = "wheelchair" /\ edge.slope > 5 THEN 3 ELSE 2)
    * (IF edge.curb > 0 /\ ~edge.hasRamp THEN 5 + edge.curb ELSE 5)
    * (IF edge.width < 150 THEN 100 + (150 - edge.width) ELSE 100)
    * (IF edge.temporary # NoTag THEN 2 ELSE 1)

\* gravel left out of the surfaces that make an edge partial
getEdgeAccessibilityLevel_NoGravel(edge, prof) ==
    IF ~isEdgeAccessible(edge, prof) THEN "inaccessible"
    ELSE IF \/ edge.curb > 3
            \/ edge.slope > 5
            \/ edge.surface = "cobblestone"
            \/ edge.temporary # NoTag
         THEN "partial"
         ELSE "accessible"

getEdgeAccessibilityLevel(edge, prof) ==
    IF ~isEdgeAccessible(edge, prof) THEN "inaccessible"
    ELSE IF \/ edge.curb > 3
            \/ edge.slope > 5
            \/ edge.surface = "cobblestone"
            \/ edge.surface = "gravel"
            \/ edge.temporary # NoTag
         THEN "partial"
         ELSE "accessible"


-----------------------------------------------------------------------------
(* src/routing.code: the adjacency index *)

RECURSIVE AdjacencyEntries_FromOnly(_, _)
\* the edge indexed at its from node only: the graph treated as directed
AdjacencyEntries_FromOnly(id, es) ==
    IF es = << >> THEN << >>
    ELSE LET e == Head(es) IN
         (IF e.from = id THEN << [to |-> e.to, edge |-> e] >> ELSE << >>)
         \o AdjacencyEntries_FromOnly(id, Tail(es))

RECURSIVE AdjacencyEntries(_, _)
\* the entries edges.forEach pushes onto the list of node `id`, in edge-list order
AdjacencyEntries(id, es) ==
    IF es = << >> THEN << >>
    ELSE LET e == Head(es) IN
         (IF e.from = id THEN << [to |-> e.to, edge |-> e] >> ELSE << >>)
         \o (IF e.to = id THEN << [to |-> e.from, edge |-> e] >> ELSE << >>)
         \o AdjacencyEntries(id, Tail(es))

buildAdjacencyList(ns, es) ==
    [id \in {ns[i].id : i \in DOMAIN ns} |-> AdjacencyEntries(id, es)]

-----------------------------------------------------------------------------
(* src/routing.code: path reconstruction and scoring *)

\* the empty edge list scored like a sum of nothing
calculateAccessibilityScore_EmptyZero(es, prof) ==
    LET score(e) ==
            LET level == getEdgeAccessibilityLevel(e, prof) IN
            IF level = "accessible" THEN 100
            ELSE IF level = "partial" THEN 60
            ELSE 0
        totalScore == SumSeq([i \in DOMAIN es |-> score(es[i])])
    IN  IF Len(es) = 0 THEN 0
        ELSE (2 * totalScore + Len(es)) \div (2 * Len(es))

\* a mean ending in .5 rounded down
calculateAccessibilityScore_HalfDown(es, prof) ==
    LET score(e) ==
            LET level == getEdgeAccessibilityLevel(e, prof) IN
            IF level = "accessible" THEN 100
            ELSE IF level = "partial" THEN 60
            ELSE 0
        totalScore == SumSeq([i \in DOMAIN es |-> score(es[i])])
    IN  IF Len(es) = 0 THEN 100
        ELSE (2 * totalScore + Len(es) - 1) \div (2 * Len(es))

calculateAccessibilityScore(es, prof) ==
    IF Len(es) = 0 THEN 100
    ELSE LET score(e) ==
                 LET level == getEdgeAccessibilityLevel(e, prof) IN
                 IF level = "accessible" THEN 100
                 ELSE IF level = "partial" THEN 60
                 ELSE 0
             totalScore == SumSeq([i \in DOMAIN es |-> score(es[i])])
         IN  \* Math.round of a non-negative quotient: halves round up
             (2 * totalScore + Len(es)) \div (2 * Len(es))

\* the checks chained with else: only the first matching reason is pushed
IssueReasons_FirstOnly(edge) ==
    IF edge.curb > 3 THEN << "curb" >>
    ELSE IF edge.slope > 5 THEN << "slope" >>
    ELSE IF edge.surface = "cobblestone" \/ edge.surface = "gravel" THEN << "surface" >>
    ELSE IF edge.temporary # NoTag THEN << "temporary" >>
    ELSE IF ~edge.hasRamp /\ edge.curb > 0 THEN << "noRamp" >>
    ELSE << >>

\* the slope check left out of the reasons
IssueReasons_NoSlope(edge) ==
       (IF edge.curb > 3 THEN << "curb" >> ELSE << >>)
    \o (IF edge.surface = "cobblestone" \/ edge.surface = "gravel"
        THEN << "surface" >> ELSE << >>)
    \o (IF edge.temporary # NoTag THEN << "temporary" >> ELSE << >>)
    \o (IF ~edge.hasRamp /\ edge.curb > 0 THEN << "noRamp" >> ELSE << >>)

\* the reasons pushed for one problem edge, as tags for the message templates
IssueReasons(edge) ==
       (IF edge.curb > 3 THEN << "curb" >> ELSE << >>)
    \o (IF edge.slope > 5 THEN << "slope" >> ELSE << >>)
    \o (IF edge.surface = "cobblestone" \/ edge.surface = "gravel"
        THEN << "surface" >> ELSE << >>)
    \o (IF edge.temporary # NoTag THEN << "temporary" >> ELSE << >>)
    \o (IF ~edge.hasRamp /\ edge.curb > 0 THEN << "noRamp" >> ELSE << >>)

RouteKeys == {"path", "edges", "totalDistance", "totalWeight", "issues", "accessibilityScore"}

\* a returned object; `keys` are the properties it has, the others hold fillers
MkResult(keys, path, es, dist, weight, issues, score, notFound) ==
    [keys |-> keys, path |-> path, edges |-> es, totalDistance |-> dist,
     totalWeight |-> weight, issues |-> issues, accessibilityScore |-> score,
     notFound |-> notFound]

NoResult == MkResult({}, << >>, << >>, 0, 0, << >>, 0, FALSE)

RECURSIVE WalkBack_PushEdges(_, _, _, _)
\* the edges pushed instead of unshifted: the edge list comes out in walk order
WalkBack_PushEdges(cf, eu, prof, acc) ==
    LET current == Head(acc.path) IN
    IF ~MapHas(cf, current) THEN acc
    ELSE LET prev == cf[current]
             edge == eu[current]
             accessibility == getEdgeAccessibilityLevel(edge, prof)
             issue == [edge |-> edge, level |-> accessibility,
                       reasons |-> IssueReasons(edge)]
         IN  WalkBack_PushEdges(cf, eu, prof,
                      [path |-> << prev >> \o acc.path,
                       edges |-> Append(acc.edges, edge),
                       totalDistance |-> acc.totalDistance + edge.distance,
                       issues |-> IF accessibility # "accessible"
                                  THEN Append(acc.issues, issue)
                                  ELSE acc.issues])

RECURSIVE WalkBack_UnshiftIssues(_, _, _, _)
\* the issues front-inserted like path and edges: they come out start-to-goal
WalkBack_UnshiftIssues(cf, eu, prof, acc) ==
    LET current == Head(acc.path) IN
    IF ~MapHas(cf, current) THEN acc
    ELSE LET prev == cf[current]
             edge == eu[current]
             accessibility == getEdgeAccessibilityLevel(edge, prof)
             issue == [edge |-> edge, level |-> accessibility,
                       reasons |-> IssueReasons(edge)]
         IN  WalkBack_UnshiftIssues(cf, eu, prof,
                      [path |-> << prev >> \o acc.path,
                       edges |-> << edge >> \o acc.edges,
                       totalDistance |-> acc.totalDistance + edge.distance,
                       issues |-> IF accessibility # "accessible"
                                  THEN << issue >> \o acc.issues
                                  ELSE acc.issues])

RECURSIVE WalkBack(_, _, _, _)
\* the while (cameFrom.has(current)) loop; acc holds path, edges, issues, totalDistance
WalkBack(cf, eu, prof, acc) ==
    LET current == Head(acc.path) IN
    IF ~MapHas(cf, current) THEN acc
    ELSE LET prev == cf[current]
             edge == eu[current]
             accessibility == getEdgeAccessibilityLevel(edge, prof)
             issue == [edge |-> edge, level |-> accessibility,
                       reasons |-> IssueReasons(edge)]
         IN  WalkBack(cf, eu, prof,
                      [path |-> << prev >> \o acc.path,
                       edges |-> << edge >> \o acc.edges,
                       totalDistance |-> acc.totalDistance + edge.distance,
                       issues |-> IF accessibility # "accessible"
                                  THEN Append(acc.issues, issue)
                                  ELSE acc.issues])

reconstructPath(cf, eu, end, totalWeight, prof) ==
    LET w == WalkBack(cf, eu, prof,
                      [path |-> << end >>, edges |-> << >>,
                       totalDistance |-> 0, issues |-> << >>])
    IN  MkResult(RouteKeys, w.path, w.edges, w.totalDistance, totalWeight,
                 w.issues, calculateAccessibilityScore(w.edges, prof), FALSE)

-----------------------------------------------------------------------------
(* src/routing.code: findAccessibleRoute                                   *)
(* A search state is a record of the function's locals: pc, openSet,       *)
(* cameFrom, gScore, edgeUsed, extractions, result.                        *)

NodeIdsOf(ns) == {ns[i].id : i \in DOMAIN ns}

\* new Map(nodes.map(n => [n.id, n])): a later node of the same id wins
nodeMap(ns) ==
    [id \in NodeIdsOf(ns) |->
        ns[CHOOSE i \in DOMAIN ns :
              /\ ns[i].id = id
              /\ \A j \in DOMAIN ns : ns[j].id = id => j <= i]]

\* a heuristic that doubles the straight-line distance
heuristic_Doubled(ns, nodeId, end) ==
    LET node == nodeMap(ns)[nodeId]
        endNode == nodeMap(ns)[end]
    IN  2 * WeightScale * calculateDistance(node.lat, node.lng, endNode.lat, endNode.lng)

\* heuristic(nodeId), in 1/WeightScale metres; the caller checks the node exists
heuristic(ns, nodeId, end) ==
    LET node == nodeMap(ns)[nodeId]
        endNode == nodeMap(ns)[end]
    IN  WeightScale * calculateDistance(node.lat, node.lng, endNode.lat, endNode.lng)

BadInputResult ==
    MkResult({"path", "edges", "totalDistance", "issues"},
             << >>, << >>, 0, 0, << >>, 0, FALSE)

NotFoundResult ==
    MkResult({"path", "edges", "totalDistance", "issues", "notFound"},
             << >>, << >>, 0, 0, << >>, 0, TRUE)

\* only the start node is looked up before the search is set up: with an unknown
\* end id the first heuristic call reads .lat of undefined
BeginSearch_OnlyStart(ns, start, end) ==
    IF start \notin NodeIdsOf(ns)
    THEN [pc |-> "returned", openSet |-> << >>, cameFrom |-> EmptyMap,
          gScore |-> EmptyMap, edgeUsed |-> EmptyMap, extractions |-> 0,
          result |-> BadInputResult]
    ELSE IF end \notin NodeIdsOf(ns)
    THEN [pc |-> "threw", openSet |-> << >>, cameFrom |-> EmptyMap,
          gScore |-> EmptyMap, edgeUsed |-> EmptyMap, extractions |-> 0,
          result |-> NoResult]
    ELSE [pc |-> "search",
          openSet |-> << [id |-> start, fScore |-> heuristic(ns, start, end)] >>,
          cameFrom |-> EmptyMap,
          gScore |-> MapSet(EmptyMap, start, 0),
          edgeUsed |-> EmptyMap, extractions |-> 0,
          result |-> NoResult]

\* lines 152-172: look the endpoints up, then set up the search
BeginSearch(ns, start, end) ==
    IF start \notin NodeIdsOf(ns) \/ end \notin NodeIdsOf(ns)
    THEN [pc |-> "returned", openSet |-> << >>, cameFrom |-> EmptyMap,
          gScore |-> EmptyMap, edgeUsed |-> EmptyMap, extractions |-> 0,
          result |-> BadInputResult]
    ELSE [pc |-> "search",
          openSet |-> << [id |-> start, fScore |-> heuristic(ns, start, end)] >>,
          cameFrom |-> EmptyMap,
          gScore |-> MapSet(EmptyMap, start, 0),
          edgeUsed |-> EmptyMap, extractions |-> 0,
          result |-> NoResult]

RECURSIVE InsertSorted(_, _)
\* x goes after every entry whose fScore is not larger (stable)
InsertSorted(sorted, x) ==
    IF sorted = << >> THEN << x >>
    ELSE IF Head(sorted).fScore <= x.fScore
         THEN << Head(sorted) >> \o InsertSorted(Tail(sorted), x)
         ELSE << x >> \o sorted

RECURSIVE SortByFScore(_)
\* openSet.sort((a, b) => a.fScore - b.fScore): Array.prototype.sort is stable
SortByFScore(s) ==
    IF s = << >> THEN << >>
    ELSE InsertSorted(SortByFScore(SubSeq(s, 1, Len(s) - 1)), s[Len(s)])

InOpenSet(os, id) == \E k \in DOMAIN os : os[k].id = id

\* line 188: the edge is skipped
\* the gate left out of the loop
EdgeSkipped_NoGate(edge, prof) == FALSE

\* a gate that looks at the slope only
EdgeSkipped_SlopeOnly(edge, prof) == edge.slope > prof.maxSlope

EdgeSkipped(edge, prof) == ~isEdgeAccessible(edge, prof)

\* a node that has a cost never gets a better one
RelaxEdge_FirstWins(st, ns, end, prof, current, neighbor) ==
    LET tentativeGScore == st.gScore[current] + calculateEdgeWeight(neighbor.edge, prof) IN
    IF MapHas(st.gScore, neighbor.to)
    THEN st
    ELSE LET recorded ==
                 [st EXCEPT !.cameFrom = MapSet(@, neighbor.to, current),
                            !.edgeUsed = MapSet(@, neighbor.to, neighbor.edge),
                            !.gScore = MapSet(@, neighbor.to, tentativeGScore)]
         IN  IF neighbor.to \notin NodeIdsOf(ns)
             THEN [recorded EXCEPT !.pc = "threw"]
             ELSE [recorded EXCEPT
                      !.openSet = Append(@, [id |-> neighbor.to,
                                             fScore |-> tentativeGScore
                                                        + heuristic(ns, neighbor.to, end)])]

\* a better cost is stored without the back-pointer and the edge that gave it
RelaxEdge_KeepPointer(st, ns, end, prof, current, neighbor) ==
    LET tentativeGScore == st.gScore[current] + calculateEdgeWeight(neighbor.edge, prof) IN
    IF MapHas(st.gScore, neighbor.to) /\ ~(tentativeGScore < st.gScore[neighbor.to])
    THEN st
    ELSE LET recorded ==
                 IF MapHas(st.gScore, neighbor.to)
                 THEN [st EXCEPT !.gScore = MapSet(@, neighbor.to, tentativeGScore)]
                 ELSE [st EXCEPT !.cameFrom = MapSet(@, neighbor.to, current),
                                 !.edgeUsed = MapSet(@, neighbor.to, neighbor.edge),
                                 !.gScore = MapSet(@, neighbor.to, tentativeGScore)]
         IN  IF neighbor.to \notin NodeIdsOf(ns)
             THEN [recorded EXCEPT !.pc = "threw"]
             ELSE LET fScore == tentativeGScore + heuristic(ns, neighbor.to, end) IN
                  IF InOpenSet(recorded.openSet, neighbor.to)
                  THEN recorded
                  ELSE [recorded EXCEPT
                           !.openSet = Append(@, [id |-> neighbor.to, fScore |-> fScore])]

\* the tentative cost taken as the edge weight alone, without gScore(current)
RelaxEdge_WeightOnly(st, ns, end, prof, current, neighbor) ==
    LET tentativeGScore == calculateEdgeWeight(neighbor.edge, prof) IN
    IF MapHas(st.gScore, neighbor.to) /\ ~(tentativeGScore < st.gScore[neighbor.to])
    THEN st
    ELSE LET recorded ==
                 [st EXCEPT !.cameFrom = MapSet(@, neighbor.to, current),
                            !.edgeUsed = MapSet(@, neighbor.to, neighbor.edge),
                            !.gScore = MapSet(@, neighbor.to, tentativeGScore)]
         IN  IF neighbor.to \notin NodeIdsOf(ns)
             THEN [recorded EXCEPT !.pc = "threw"]
             ELSE LET fScore == tentativeGScore + heuristic(ns, neighbor.to, end) IN
                  IF InOpenSet(recorded.openSet, neighbor.to)
                  THEN recorded
                  ELSE [recorded EXCEPT
                           !.openSet = Append(@, [id |-> neighbor.to, fScore |-> fScore])]

\* the improved neighbor pushed without looking whether it is queued already
RelaxEdge_AlwaysPush(st, ns, end, prof, current, neighbor) ==
    LET tentativeGScore == st.gScore[current] + calculateEdgeWeight(neighbor.edge, prof) IN
    IF MapHas(st.gScore, neighbor.to) /\ ~(tentativeGScore < st.gScore[neighbor.to])
    THEN st
    ELSE LET recorded ==
                 [st EXCEPT !.cameFrom = MapSet(@, neighbor.to, current),
                            !.edgeUsed = MapSet(@, neighbor.to, neighbor.edge),
                            !.gScore = MapSet(@, neighbor.to, tentativeGScore)]
         IN  IF neighbor.to \notin NodeIdsOf(ns)
             THEN [recorded EXCEPT !.pc = "threw"]
             ELSE LET fScore == tentativeGScore + heuristic(ns, neighbor.to, end) IN
                  [recorded EXCEPT
                      !.openSet = Append(@, [id |-> neighbor.to, fScore |-> fScore])]

\* lines 192-205 for one neighbor entry the gate let through
RelaxEdge(st, ns, end, prof, current, neighbor) ==
    LET tentativeGScore == st.gScore[current] + calculateEdgeWeight(neighbor.edge, prof) IN
    IF MapHas(st.gScore, neighbor.to) /\ ~(tentativeGScore < st.gScore[neighbor.to])
    THEN st
    ELSE LET recorded ==
                 [st EXCEPT !.cameFrom = MapSet(@, neighbor.to, current),
                            !.edgeUsed = MapSet(@, neighbor.to, neighbor.edge),
                            !.gScore = MapSet(@, neighbor.to, tentativeGScore)]
         IN  IF neighbor.to \notin NodeIdsOf(ns)
             THEN \* heuristic reads .lat of undefined: TypeError
                  [recorded EXCEPT !.pc = "threw"]
             ELSE LET fScore == tentativeGScore + heuristic(ns, neighbor.to, end) IN
                  IF InOpenSet(recorded.openSet, neighbor.to)
                  THEN recorded
                  ELSE [recorded EXCEPT
                           !.openSet = Append(@, [id |-> neighbor.to, fScore |-> fScore])]

RECURSIVE RelaxNeighbors(_, _, _, _, _, _, _)
\* the for (const neighbor of neighbors) loop, from entry i on
RelaxNeighbors(st, ns, end, prof, current, neighbors, i) ==
    IF i > Len(neighbors) \/ st.pc = "threw" THEN st
    ELSE IF EdgeSkipped(neighbors[i].edge, prof)
         THEN RelaxNeighbors(st, ns, end, prof, current, neighbors, i + 1)
         ELSE RelaxNeighbors(RelaxEdge(st, ns, end, prof, current, neighbors[i]),
                             ns, end, prof, current, neighbors, i + 1)

\* one pass of the while loop (lines 174-207), or line 210 when the open set is empty
SearchStep(st, g, ns, end, prof) ==
    IF st.openSet = << >>
    THEN [st EXCEPT !.pc = "returned", !.result = NotFoundResult]
    ELSE LET sorted == SortByFScore(st.openSet)
             current == Head(sorted)
             shifted == [st EXCEPT !.openSet = Tail(sorted),
                                   !.extractions = @ + 1]
         IN  IF current.id = end
             THEN [shifted EXCEPT
                      !.pc = "returned",
                      !.result = reconstructPath(st.cameFrom, st.edgeUsed, current.id,
                                                 st.gScore[end], prof)]
             ELSE LET neighbors == IF MapHas(g, current.id) THEN g[current.id] ELSE << >>
                  IN  RelaxNeighbors(shifted, ns, end, prof, current.id, neighbors, 1)

RECURSIVE RunSearch(_, _, _, _, _)
RunSearch(st, g, ns, end, prof) ==
    IF st.pc # "search" THEN st
    ELSE RunSearch(SearchStep(st, g, ns, end, prof), g, ns, end, prof)

\* the whole call: its final search state (pc "returned" with result, or "threw")
findAccessibleRoute(g, ns, start, end, prof) ==
    RunSearch(BeginSearch(ns, start, end), g, ns, end, prof)

-----------------------------------------------------------------------------
(* Inputs of the search model: networks over NodeIds, built from six edge  *)
(* slots in a fixed list order.  A slot is absent or holds a clear edge or *)
(* the slot's barrier edge, with a distance from 1..MaxDist.               *)

ClearEdge(f, t, d)  == MkEdge(f, t, d, "asphalt", 0, FALSE, 0, 150, NoTag)
SteepEdge(f, t, d)  == MkEdge(f, t, d, "asphalt", 0, FALSE, 6, 150, NoTag)
CurbEdge(f, t, d)   == MkEdge(f, t, d, "asphalt", 4, FALSE, 0, 150, NoTag)
RepairEdge(f, t, d) == MkEdge(f, t, d, "asphalt", 0, FALSE, 0, 150, "repair")
NarrowEdge(f, t, d) == MkEdge(f, t, d, "asphalt", 0, FALSE, 0, 80, NoTag)

Slot12(ds) == {<< >>} \cup {<< ClearEdge(1, 2, d) >> : d \in ds} \cup {<< SteepEdge(1, 2, d) >> : d \in ds}
Slot23(ds) == {<< >>} \cup {<< ClearEdge(2, 3, d) >> : d \in ds} \cup {<< SteepEdge(2, 3, d) >> : d \in ds}
Slot14(ds) == {<< >>} \cup {<< ClearEdge(1, 4, d) >> : d \in ds} \cup {<< RepairEdge(1, 4, d) >> : d \in ds}
Slot43(ds) == {<< >>} \cup {<< ClearEdge(4, 3, d) >> : d \in ds} \cup {<< CurbEdge(4, 3, d) >> : d \in ds}
Slot42(ds) == {<< >>} \cup {<< ClearEdge(4, 2, d) >> : d \in ds} \cup {<< NarrowEdge(4, 2, d) >> : d \in ds}

\* an edge naming an endpoint that is not in the node list
SlotDangling == {<< >>, << ClearEdge(1, UnknownId, 1) >>, << SteepEdge(UnknownId, 1, 1) >>}

Networks(ds, dangling) ==
    {a \o b \o c \o d \o e \o f :
        a \in Slot12(ds), b \in Slot23(ds), c \in Slot14(ds),
        d \in Slot43(ds), e \in Slot42(ds), f \in dangling}

UnitNetworks ==
    {a \o b \o c \o d \o e \o f :
        a \in {<< >>, << ClearEdge(1, 2, 1) >>}, b \in {<< >>, << SteepEdge(2, 3, 1) >>},
        c \in {<< >>, << RepairEdge(1, 4, 1) >>}, d \in {<< >>, << CurbEdge(4, 3, 1) >>},
        e \in {<< >>, << NarrowEdge(4, 2, 1) >>}, f \in SlotDangling}

strictProfile   == MkProfile("wheelchair", 3, 5, 90)
strollerProfile == MkProfile("stroller", 5, 8, 80)

SearchProfiles == {defaultProfile, strictProfile, strollerProfile}

\* node lists: every node at latitude 0, or node 4 moved north by 1 or by MaxLat
NodeList(far, k) ==
    [i \in 1..Cardinality(NodeIds) |-> [id |-> i, lat |-> IF i = far THEN k ELSE 0, lng |-> 0]]

NodeLists == {NodeList(0, 0)} \cup {NodeList(4, k) : k \in {1, MaxLat}}

MkInput(ns, es, prof, s, e) ==
    [nodes |-> ns, edges |-> es, profile |-> prof, startId |-> s, endId |-> e]

\* queries from node 1 to node 3 over every network and node list
RouteInputs ==
    {MkInput(ns, es, prof, 1, 3) :
        ns \in NodeLists, es \in Networks(1..MaxDist, {<< >>}),
        prof \in {defaultProfile, strollerProfile}}

\* every start/end pair, known or not, over networks of unit-distance edges
QueryInputs ==
    {MkInput(NodeList(0, 0), es, prof, s, e) :
        es \in UnitNetworks, prof \in SearchProfiles,
        s \in NodeIds \cup {UnknownId}, e \in NodeIds \cup {UnknownId}}

\* networks of barrier-free edges of distance 0 or 1 (a zero-length edge costs nothing)
ZeroNetworks ==
    {a \o b \o c \o d \o e :
        a \in {<< >>} \cup {<< ClearEdge(1, 2, k) >> : k \in {0, 1}},
        b \in {<< >>} \cup {<< ClearEdge(2, 3, k) >> : k \in {0, 1}},
        c \in {<< >>} \cup {<< ClearEdge(1, 4, k) >> : k \in {0, 1}},
        d \in {<< >>} \cup {<< ClearEdge(4, 3, k) >> : k \in {0, 1}},
        e \in {<< >>} \cup {<< ClearEdge(4, 2, k) >> : k \in {0, 1}}}

\* queries from node 1 to node 3 over the networks with zero-length edges
ZeroInputs ==
    {MkInput(ns, es, defaultProfile, 1, 3) : ns \in NodeLists, es \in ZeroNetworks}


-----------------------------------------------------------------------------
(* The search as a state machine *)

SearchIdle ==
    /\ openSet = << >>
    /\ cameFrom = EmptyMap
    /\ gScore = EmptyMap
    /\ edgeUsed = EmptyMap
    /\ extractions = 0
    /\ result = NoResult

NoCall == MkEdge(0, 0, 0, "asphalt", 0, FALSE, 0, 0, NoTag)

NoOut == [accessible |-> FALSE, weight |-> 0, level |-> "none"]

\* no second call is in progress
NoSecond ==
    [profile |-> defaultProfile, pc |-> "none", openSet |-> << >>, cameFrom |-> EmptyMap,
     gScore |-> EmptyMap, edgeUsed |-> EmptyMap, extractions |-> 0, result |-> NoResult]

\* the call's arguments are those of input inp
Inputs(inp) ==
    /\ nodes = inp.nodes
    /\ edges = inp.edges
    /\ profile = inp.profile
    /\ startId = inp.startId
    /\ endId = inp.endId

Init ==
    /\ \/ \E inp \in RouteInputs : Inputs(inp)
       \/ \E inp \in QueryInputs : Inputs(inp)
       \/ \E inp \in ZeroInputs : Inputs(inp)
    /\ graph = EmptyMap
    /\ pc = "raw"
    /\ SearchIdle
    /\ callEdge = NoCall
    /\ callOut = NoOut
    /\ second = NoSecond

Install(st) ==
    /\ pc' = st.pc
    /\ openSet' = st.openSet
    /\ cameFrom' = st.cameFrom
    /\ gScore' = st.gScore
    /\ edgeUsed' = st.edgeUsed
    /\ extractions' = st.extractions
    /\ result' = st.result

SearchState ==
    [pc |-> pc, openSet |-> openSet, cameFrom |-> cameFrom, gScore |-> gScore,
     edgeUsed |-> edgeUsed, extractions |-> extractions, result |-> result]

\* App.jsx builds the index once from the network data
BuildGraph ==
    /\ pc = "raw"
    /\ graph' = buildAdjacencyList(nodes, edges)
    /\ pc' = "ready"
    /\ UNCHANGED <<nodes, edges, profile, startId, endId, openSet, cameFrom, gScore,
                   edgeUsed, extractions, result, callEdge, callOut, second>>

\* findAccessibleRoute is called: lines 152-172
Begin ==
    /\ pc = "ready"
    /\ Install(BeginSearch(nodes, startId, endId))
    /\ UNCHANGED <<nodes, edges, graph, profile, startId, endId, callEdge, callOut, second>>

\* a pass that consumes the neighbor list it iterates (shift() instead of for-of)
Iterate_DrainsNeighbors ==
    /\ pc = "search"
    /\ openSet # << >>
    /\ Install(SearchStep(SearchState, graph, nodes, endId, profile))
    /\ graph' = [n \in DOMAIN graph |->
                    IF n = SortByFScore(openSet)[1].id THEN << >> ELSE graph[n]]
    /\ UNCHANGED <<nodes, edges, profile, startId, endId, callEdge, callOut, second>>

\* one pass of the while loop, lines 174-207
Iterate ==
    /\ pc = "search"
    /\ openSet # << >>
    /\ Install(SearchStep(SearchState, graph, nodes, endId, profile))
    /\ UNCHANGED <<nodes, edges, graph, profile, startId, endId, callEdge, callOut, second>>

\* the loop ends with the open set empty: line 210
GiveUp ==
    /\ pc = "search"
    /\ openSet = << >>
    /\ Install(SearchStep(SearchState, graph, nodes, endId, profile))
    /\ UNCHANGED <<nodes, edges, graph, profile, startId, endId, callEdge, callOut, second>>

Next == BuildGraph \/ Begin \/ Iterate \/ GiveUp

Spec == Init /\ [][Next]_vars

-----------------------------------------------------------------------------
(* Direct calls of the per-edge functions on one edge and one profile *)

SlopeValues == {-9, -6, 0, 5, 6, 8, 9}
CurbValues  == {0, 3, 4, 5, 6}
WidthValues == {89, 90, 149, 150}

EdgeDomain ==
    {MkEdge(1, 2, d, sf, c, r, sl, w, tmp) :
        d \in {0, MaxDist}, sf \in Surfaces, c \in CurbValues, r \in BOOLEAN,
        sl \in SlopeValues, w \in WidthValues, tmp \in Temporaries}

ProfileDomain ==
    {MkProfile(m, c, s, 90) : m \in {"wheelchair", "stroller"}, c \in {3, 5}, s \in {5, 8}}

EdgeInit ==
    /\ callEdge \in EdgeDomain
    /\ profile \in ProfileDomain
    /\ callOut = NoOut
    /\ second = NoSecond
    /\ pc = "edge"
    /\ nodes = << >>
    /\ edges = << >>
    /\ graph = EmptyMap
    /\ startId = 0
    /\ endId = 0
    /\ SearchIdle

EvaluateEdge ==
    /\ pc = "edge"
    /\ callOut' = [accessible |-> isEdgeAccessible(callEdge, profile),
                   weight |-> calculateEdgeWeight(callEdge, profile),
                   level |-> getEdgeAccessibilityLevel(callEdge, profile)]
    /\ pc' = "evaluated"
    /\ UNCHANGED <<nodes, edges, graph, profile, startId, endId, openSet, cameFrom,
                   gScore, edgeUsed, extractions, result, callEdge, second>>

EdgeSpec == EdgeInit /\ [][EvaluateEdge]_vars

-----------------------------------------------------------------------------
(* Direct calls of calculateAccessibilityScore on one edge list *)

\* under defaultProfile: an accessible, a partial and an inaccessible edge
ScoredEdges == {ClearEdge(1, 2, 1), CurbEdge(1, 2, 1), RepairEdge(1, 2, 1)}

\* every list of at most MaxRouteLen of those edges
ScoreInit ==
    /\ edges \in UNION {[1..n -> ScoredEdges] : n \in 0..MaxRouteLen}
    /\ profile = defaultProfile
    /\ pc = "score"
    /\ callEdge = NoCall
    /\ callOut = NoOut
    /\ second = NoSecond
    /\ nodes = << >>
    /\ graph = EmptyMap
    /\ startId = 0
    /\ endId = 0
    /\ SearchIdle

EvaluateScore ==
    /\ pc = "score"
    /\ callOut' = [score |-> calculateAccessibilityScore(edges, profile)]
    /\ pc' = "scored"
    /\ UNCHANGED <<nodes, edges, graph, profile, startId, endId, openSet, cameFrom,
                   gScore, edgeUsed, extractions, result, callEdge, second>>

ScoreSpec == ScoreInit /\ [][EvaluateScore]_vars

-----------------------------------------------------------------------------
(* buildAdjacencyList on edge lists of any shape: edges between listed nodes, *)
(* to or from an unlisted id, from a node to itself, of negative distance    *)

IndexedEdges ==
    {ClearEdge(f, t, d) : f \in {1, 2, UnknownId}, t \in {1, 2, UnknownId}, d \in {0 - 1, 0, 1}}

\* every list of at most MaxEdges of those edges
BuildInit ==
    /\ nodes = NodeList(0, 0)
    /\ edges \in UNION {[1..n -> IndexedEdges] : n \in 0..MaxEdges}
    /\ graph = EmptyMap
    /\ pc = "raw"
    /\ profile = defaultProfile
    /\ startId = 0
    /\ endId = 0
    /\ SearchIdle
    /\ callEdge = NoCall
    /\ callOut = NoOut
    /\ second = NoSecond

BuildSpec == BuildInit /\ [][BuildGraph]_vars

-----------------------------------------------------------------------------
(* Reference notions the properties are stated with *)

KnownIds == NodeIdsOf(nodes)

AllIds == KnownIds \cup {edges[i].from : i \in DOMAIN edges} \cup {edges[i].to : i \in DOMAIN edges}

Finished == pc \in {"returned", "threw"}

RouteReturned == pc = "returned" /\ result.keys = RouteKeys

Infinity == 0 - 1    \* stands for "no path" in LeastCosts

Joins(e, a, b) == (e.from = a /\ e.to = b) \/ (e.from = b /\ e.to = a)

\* the least of a non-empty set of costs
Least(costs) == CHOOSE c \in costs : \A d \in costs : c <= d

\* the cost of node n after one more round of relaxing every gate-passing edge of
\* the edge list in both directions; cost is a sequence indexed by node id
RelaxedCost(cost, prof, n) ==
    LET via == {cost[m] + calculateEdgeWeight(edges[i], prof) :
                   <<m, i>> \in {<<m, i>> \in (DOMAIN cost) \X (DOMAIN edges) :
                                    /\ cost[m] # Infinity
                                    /\ Joins(edges[i], m, n)
                                    /\ isEdgeAccessible(edges[i], prof)}}
        all == via \cup (IF cost[n] = Infinity THEN {} ELSE {cost[n]})
    IN  IF all = {} THEN Infinity ELSE Least(all)

RECURSIVE RelaxAll(_, _, _)
\* the first n entries of the next round's costs
RelaxAll(cost, prof, n) ==
    IF n = 0 THEN << >>
    ELSE Append(RelaxAll(cost, prof, n - 1), RelaxedCost(cost, prof, n))

RECURSIVE RelaxRounds(_, _, _)
RelaxRounds(cost, prof, k) ==
    IF k = 0 THEN cost
    ELSE RelaxRounds(RelaxAll(cost, prof, Len(cost)), prof, k - 1)

RECURSIVE InitialCosts(_, _)
InitialCosts(start, n) ==
    IF n = 0 THEN << >>
    ELSE Append(InitialCosts(start, n - 1), IF n = start THEN 0 ELSE Infinity)

\* least summed calculateEdgeWeight over the gate-passing paths from `start` to each
\* id in 1..UnknownId (Bellman-Ford over the edge list; Infinity where there is none)
LeastCosts(start, prof) ==
    RelaxRounds(InitialCosts(start, UnknownId), prof, UnknownId - 1)

AccessiblePathExists(start, end, prof) == LeastCosts(start, prof)[end] # Infinity

\* every edge of the edge list joins two nodes of the node list
NoDanglingEdge == \A i \in DOMAIN edges : edges[i].from \in KnownIds /\ edges[i].to \in KnownIds

AtLeastAsStrict(p1, p2) ==
    /\ p1.mobilityType = p2.mobilityType
    /\ p1.maxCurbHeight <= p2.maxCurbHeight
    /\ p1.maxSlope <= p2.maxSlope
    /\ p1.minWidth >= p2.minWidth

-----------------------------------------------------------------------------
(* Properties *)

\* C1: a returned route's totalWeight is the least summed calculateEdgeWeight over
\* all start-to-end paths made of gate-passing edges.
C1_Optimality ==
    RouteReturned => result.totalWeight = LeastCosts(startId, profile)[endId]

\* C2: every edge of a returned route passes isEdgeAccessible, and no cost or
\* back-pointer is ever recorded through an edge that fails it: each back-pointer
\* has its edge, the edge passes the gate, and only the start has a cost without one.
C2_GateGovernsTraversal ==
    /\ DOMAIN cameFrom = DOMAIN edgeUsed
    /\ DOMAIN gScore \subseteq (DOMAIN edgeUsed) \cup {startId}
    /\ \A n \in DOMAIN edgeUsed : isEdgeAccessible(edgeUsed[n], profile)
    /\ RouteReturned => \A i \in DOMAIN result.edges : isEdgeAccessible(result.edges[i], profile)

\* C2 witness: a route was returned although a gate-failing edge, whose
\* classification-only attributes raise no flag, leaves a node of the route.
C2_Witness ==
    /\ RouteReturned
    /\ Len(result.path) > 2
    /\ \E i \in DOMAIN edges, k \in DOMAIN result.path :
          /\ k < Len(result.path)
          /\ edges[i].from = result.path[k] \/ edges[i].to = result.path[k]
          /\ ~isEdgeAccessible(edges[i], profile)
          /\ edges[i].curb <= profile.maxCurbHeight
          /\ edges[i].surface = "asphalt"
          /\ edges[i].temporary = NoTag

\* C3: with both endpoints in the node list the call returns; it returns the
\* notFound result exactly when no gate-passing path joins start and end, and a
\* route otherwise.
C3_NotFoundIffNoPath ==
    (Finished /\ startId \in KnownIds /\ endId \in KnownIds) =>
        /\ pc = "returned"
        /\ IF AccessiblePathExists(startId, endId, profile)
           THEN RouteReturned /\ result.path # << >>
           ELSE result = NotFoundResult

\* C3 on the networks whose edges all join listed nodes (not the claim: a lemma)
NotFoundIffNoPathWithoutDanglingEdges == NoDanglingEdge => C3_NotFoundIffNoPath

\* C4: a query from a listed node to itself stops on the first extraction with the
\* single-node route: no edges, distance 0, weight 0, score 100, no issues, no notFound.
C4_SameStartEnd ==
    (Finished /\ startId = endId /\ startId \in KnownIds) =>
        /\ pc = "returned"
        /\ extractions = 1
        /\ result = MkResult(RouteKeys, << startId >>, << >>, 0, 0, << >>, 100, FALSE)

\* C4 witness: such a query has returned in a network where the node has edges.
C4_Witness ==
    /\ pc = "returned"
    /\ startId = endId
    /\ startId \in KnownIds
    /\ graph[startId] # << >>

\* C5: when startId or endId is not in the node list the call returns at once,
\* without throwing or searching, the empty result that has no notFound property.
C5_UnknownEndpoint ==
    (pc \notin {"raw", "ready"} /\ (startId \notin KnownIds \/ endId \notin KnownIds)) =>
        /\ pc = "returned"
        /\ result = BadInputResult
        /\ "notFound" \notin result.keys /\ ~result.notFound
        /\ result.path = << >> /\ result.edges = << >>
        /\ result.totalDistance = 0 /\ result.issues = << >>
        /\ extractions = 0 /\ openSet = << >> /\ gScore = EmptyMap

\* C5 witness: returned for an unknown end id while the start has edges.
C5_Witness ==
    /\ pc = "returned"
    /\ startId \in KnownIds
    /\ endId \notin KnownIds
    /\ graph[startId] # << >>

Evaluated == pc = "evaluated"

\* the four disqualifiers as the specification words them, for a signed slope s
Disqualified(edge, prof, s) ==
    \/ edge.curb > prof.maxCurbHeight /\ edge.hasRamp = FALSE
    \/ s > prof.maxSlope
    \/ edge.width < prof.minWidth
    \/ edge.temporary = "repair" /\ prof.mobilityType = "wheelchair"

\* C6: for a non-negative slope isEdgeAccessible is false exactly when one of the
\* four disqualifiers holds, with strict comparisons: at the limit the edge passes
\* and a ramp lets any curb pass.
C6_GateExactness ==
    (Evaluated /\ callEdge.slope >= 0) =>
        /\ callOut.accessible = ~Disqualified(callEdge, profile, callEdge.slope)
        /\ (/\ callEdge.curb = profile.maxCurbHeight
            /\ callEdge.slope = profile.maxSlope
            /\ callEdge.width = profile.minWidth
            /\ callEdge.temporary # "repair") => callOut.accessible
        /\ (callEdge.curb = profile.maxCurbHeight + 1 /\ ~callEdge.hasRamp) => ~callOut.accessible
        /\ (/\ callEdge.hasRamp
            /\ callEdge.slope <= profile.maxSlope
            /\ callEdge.width >= profile.minWidth
            /\ callEdge.temporary # "repair") => callOut.accessible

\* C6 witness: an edge exactly at all three limits, without a ramp, was found accessible.
C6_Witness ==
    /\ Evaluated
    /\ callEdge.curb = profile.maxCurbHeight /\ ~callEdge.hasRamp
    /\ callEdge.slope = profile.maxSlope
    /\ callEdge.width = profile.minWidth
    /\ callOut.accessible

MirrorSlope(edge) == [edge EXCEPT !.slope = -edge.slope]

\* C7: the slope checks use the magnitude of the grade: the gate and the
\* classification answer the same for slope s and -s, a grade whose magnitude
\* exceeds maxSlope is inaccessible, and one whose magnitude exceeds 5 is not
\* classified accessible.
C7_SlopeMagnitude ==
    Evaluated =>
        /\ callOut.accessible = isEdgeAccessible(MirrorSlope(callEdge), profile)
        /\ callOut.level = getEdgeAccessibilityLevel(MirrorSlope(callEdge), profile)
        /\ Abs(callEdge.slope) > profile.maxSlope => ~callOut.accessible
        /\ Abs(callEdge.slope) > 5 => callOut.level # "accessible"

ComparedProfiles ==
    {MkProfile(m, c, s, w) : m \in {"wheelchair", "stroller"}, c \in {3, 5},
                             s \in {5, 8}, w \in {80, 90}}

\* C9, first half on single edges (not the claim: a lemma): an edge that passes
\* under a profile passes under every profile that is no stricter.
MonotonicFilterOnEdges ==
    Evaluated =>
        \A p2 \in ComparedProfiles :
            (AtLeastAsStrict(profile, p2) /\ callOut.accessible) =>
                isEdgeAccessible(callEdge, p2)

\* C9: relaxing the limits of a profile keeps every accessible edge accessible, and
\* consequently a start/end pair that gets a route under the stricter profile gets
\* one under the more permissive profile.
C9_MonotonicFilter ==
    \A p2 \in ComparedProfiles :
        AtLeastAsStrict(profile, p2) =>
            /\ \A i \in DOMAIN edges :
                  isEdgeAccessible(edges[i], profile) => isEdgeAccessible(edges[i], p2)
            /\ RouteReturned =>
                  LET other == findAccessibleRoute(graph, nodes, startId, endId, p2)
                  IN  other.pc = "returned" /\ other.result.keys = RouteKeys

\* C9 on the networks whose edges all join listed nodes (not the claim: a lemma)
MonotonicFilterWithoutDanglingEdges == NoDanglingEdge => C9_MonotonicFilter

\* the network is the diamond start-b-end / start-d-end made of edges ab, bc, ad,
\* dc and nothing else; all four pass the gate of an unassisted wheelchair profile;
\* start-b-end is shorter by distance, bc is steeper than 5, and the summed weight
\* of start-b-end exceeds that of start-d-end
Diamond(b, d, ab, bc, ad, dc) ==
    /\ Cardinality({startId, b, endId, d}) = 4
    /\ {ab, bc, ad, dc} = DOMAIN edges
    /\ Joins(edges[ab], startId, b)
    /\ Joins(edges[bc], b, endId)
    /\ Joins(edges[ad], startId, d)
    /\ Joins(edges[dc], d, endId)
    /\ profile.mobilityType = "wheelchair"
    /\ \A i \in DOMAIN edges : isEdgeAccessible(edges[i], profile)
    /\ edges[bc].slope > 5
    /\ edges[ab].distance + edges[bc].distance < edges[ad].distance + edges[dc].distance
    /\ calculateEdgeWeight(edges[ab], profile) + calculateEdgeWeight(edges[bc], profile)
         > calculateEdgeWeight(edges[ad], profile) + calculateEdgeWeight(edges[dc], profile)

EdgesJoining(a, b) == {i \in DOMAIN edges : Joins(edges[i], a, b)}

\* the route of every finished diamond query goes through d
DiamondRoutesThroughD ==
    (Finished /\ Len(edges) = 4 /\ Cardinality(KnownIds) = 4) =>
        \A b \in KnownIds, d \in KnownIds :
            \A ab \in EdgesJoining(startId, b), bc \in EdgesJoining(b, endId),
               ad \in EdgesJoining(startId, d), dc \in EdgesJoining(d, endId) :
                Diamond(b, d, ab, bc, ad, dc) =>
                    RouteReturned /\ result.path = << startId, d, endId >>

\* no edge is shorter than the straight line between its endpoints
GeometricDistances ==
    \A i \in DOMAIN edges :
        (edges[i].from \in KnownIds /\ edges[i].to \in KnownIds) =>
            LET a == nodeMap(nodes)[edges[i].from]
                b == nodeMap(nodes)[edges[i].to]
            IN  edges[i].distance >= calculateDistance(a.lat, a.lng, b.lat, b.lng)

\* C10 as stated: in the diamond, whatever the coordinates of the nodes, the
\* search returns the path through d.
C10_DiamondPenaltySelection == DiamondRoutesThroughD

\* C10 as amended: in a diamond in which no edge's distance is below the straight
\* line between its endpoints, the search returns the path through d.
C10_DiamondWithGeometricDistances == GeometricDistances => DiamondRoutesThroughD

\* C10 witness: a diamond query over geometric distances has finished, with the
\* detour node away from the goal (its heuristic is not zero) and the steep branch
\* extracted first.
C10_Witness ==
    /\ Finished
    /\ GeometricDistances
    /\ Len(edges) = 4
    /\ Diamond(2, 4, 1, 2, 3, 4)
    /\ nodes[4].lat # nodes[3].lat
    /\ MapHas(gScore, 2) /\ ~InOpenSet(openSet, 2)

\* the conditions under which the specification calls a gate-passing edge partial
PartialBarrier(edge) ==
    \/ edge.curb > 3
    \/ edge.slope > 5
    \/ edge.surface \in {"cobblestone", "gravel"}
    \/ edge.temporary \in Temporaries \ {NoTag}

\* C11: getEdgeAccessibilityLevel returns 'inaccessible' exactly when
\* isEdgeAccessible is false; otherwise, for a non-negative slope, 'partial' exactly
\* when curb > 3, slope > 5, the surface is cobblestone or gravel, or a temporary
\* tag is present, and 'accessible' in every remaining case.
C11_ClassificationExactness ==
    Evaluated =>
        /\ (callOut.level = "inaccessible") = ~callOut.accessible
        /\ (callOut.accessible /\ callEdge.slope >= 0) =>
               /\ (callOut.level = "partial") = PartialBarrier(callEdge)
               /\ (callOut.level = "accessible") = ~PartialBarrier(callEdge)

\* C11 witness: a gravel edge with no other barrier passed the gate and was
\* classified partial.
C11_Witness ==
    /\ Evaluated
    /\ callOut.accessible
    /\ callOut.level = "partial"
    /\ callEdge.surface = "gravel"
    /\ callEdge.curb <= 3 /\ callEdge.slope \in 0..5 /\ callEdge.temporary = NoTag

\* the surface factors of the specification, in tenths
SurfaceTenths(surface) ==
    IF surface \in {"asphalt", "concrete"} THEN 10
    ELSE IF surface = "wood" THEN 11
    ELSE IF surface = "gravel" THEN 15
    ELSE IF surface = "cobblestone" THEN 18
    ELSE IF surface = "stone" THEN 20
    ELSE IF surface = "sand" THEN 25
    ELSE 12

\* the factors of the specification as numerator/denominator pairs
SpecFactors(edge, prof) ==
    << << SurfaceTenths(edge.surface), 10 >>,
       IF edge.slope > 0 THEN << 10 + edge.slope, 10 >> ELSE << 1, 1 >>,
       IF edge.slope > 5 /\ prof.mobilityType = "wheelchair" THEN << 3, 2 >> ELSE << 1, 1 >>,
       IF edge.curb > 0 /\ ~edge.hasRamp THEN << 5 + edge.curb, 5 >> ELSE << 1, 1 >>,
       IF edge.width < 150 THEN << 100 + (150 - edge.width), 100 >> ELSE << 1, 1 >>,
       IF edge.temporary # NoTag THEN << 2, 1 >> ELSE << 1, 1 >> >>

RECURSIVE Numerators(_)
Numerators(fs) == IF fs = << >> THEN 1 ELSE Head(fs)[1] * Numerators(Tail(fs))

RECURSIVE Denominators(_)
Denominators(fs) == IF fs = << >> THEN 1 ELSE Head(fs)[2] * Denominators(Tail(fs))

C13_RouteWellFormed ==
    RouteReturned =>
        LET path == result.path
            es == result.edges
        IN  /\ path # << >>
            /\ path[1] = startId
            /\ path[Len(path)] = endId
            /\ Cardinality({path[i] : i \in DOMAIN path}) = Len(path)
            /\ Len(path) = Len(es) + 1
            /\ \A i \in DOMAIN es :
                  /\ \E k \in DOMAIN edges : edges[k] = es[i]
                  /\ Joins(es[i], path[i], path[i + 1])
            /\ result.totalDistance = SumSeq([i \in DOMAIN es |-> es[i].distance])

\* C13 witness: a route of three edges was returned whose last edge is stored
\* against the direction of travel.
C13_Witness ==
    /\ RouteReturned
    /\ Len(result.edges) = 3
    /\ \E i \in DOMAIN result.edges : result.edges[i].to = result.path[i]
    /\ result.edges[1].distance # result.edges[3].distance

\* the summed calculateEdgeWeight of a list of edges
PathWeight(es, prof) == SumSeq([i \in DOMAIN es |-> calculateEdgeWeight(es[i], prof)])

\* C14: a returned route's totalWeight is the sum of calculateEdgeWeight over the
\* edges of the returned path.
C14_TotalWeightConsistent ==
    RouteReturned => result.totalWeight = PathWeight(result.edges, profile)

\* C14 witness: a route was returned through a node that got its first cost and
\* back-pointer over a gate-passing edge from the start and a better one later.
C14_Witness ==
    /\ RouteReturned
    /\ \E k \in DOMAIN result.path, i \in DOMAIN edges :
          /\ k > 2
          /\ Joins(edges[i], startId, result.path[k])
          /\ isEdgeAccessible(edges[i], profile)

\* the per-edge value of the specification
LevelValue(level) ==
    CASE level = "accessible"   -> 100
      [] level = "partial"      -> 60
      [] level = "inaccessible" -> 0

\* twice the sum of the per-edge values of an edge list
TwiceLevelSum(es, prof) ==
    2 * SumSeq([i \in DOMAIN es |-> LevelValue(getEdgeAccessibilityLevel(es[i], prof))])

\* score is the mean of the per-edge values rounded to the nearest integer, a mean
\* ending in .5 going up: score - 1/2 <= mean < score + 1/2; 100 for no edges
IsRoundedMean(es, prof, score) ==
    IF es = << >> THEN score = 100
    ELSE LET n == Len(es) IN
         /\ score \in 0..100
         /\ n * (2 * score - 1) <= TwiceLevelSum(es, prof)
         /\ TwiceLevelSum(es, prof) < n * (2 * score + 1)

\* C15: the accessibility score is the arithmetic mean over the edges of the
\* per-edge value (accessible 100, partial 60, inaccessible 0) rounded to the nearest
\* integer with halves rounded up, and 100 when the edge list is empty.
C15_ScoreIsRoundedMean ==
    pc = "scored" => IsRoundedMean(edges, profile, callOut.score)

\* C15 witness: a list whose mean ends in .5 was scored.
C15_Witness ==
    /\ pc = "scored"
    /\ edges # << >>
    /\ \E k \in 0..100 : TwiceLevelSum(edges, profile) = Len(edges) * (2 * k + 1)

\* C15 on the routes the search returns (not the claim's formula: a lemma)
ReturnedScoreIsRoundedMean ==
    RouteReturned => IsRoundedMean(result.edges, profile, result.accessibilityScore)

\* whether a reason of the specification applies to an edge
ReasonApplies(reason, edge) ==
    CASE reason = "curb"      -> edge.curb > 3
      [] reason = "slope"     -> edge.slope > 5
      [] reason = "surface"   -> edge.surface \in {"cobblestone", "gravel"}
      [] reason = "temporary" -> edge.temporary # NoTag
      [] reason = "noRamp"    -> edge.curb > 0 /\ ~edge.hasRamp

ReasonTags == {"curb", "slope", "surface", "temporary", "noRamp"}

\* the positions of the returned route's edges that are not classified accessible
ProblemEdges ==
    {i \in DOMAIN result.edges :
        getEdgeAccessibilityLevel(result.edges[i], profile) # "accessible"}

\* C16: the issues of a returned route hold exactly one record per path edge that
\* is not classified accessible and none for accessible edges; a record carries the
\* edge, its classification as level, and every reason that applies to the edge
\* (curb > 3, slope > 5, cobblestone or gravel, temporary tag, no ramp with curb > 0),
\* each once.
C16_IssuesPerProblemEdge ==
    RouteReturned =>
        /\ Len(result.issues) = Cardinality(ProblemEdges)
        /\ \A i \in ProblemEdges :
              Cardinality({k \in DOMAIN result.issues :
                              result.issues[k].edge = result.edges[i]}) = 1
        /\ \A k \in DOMAIN result.issues :
              LET issue == result.issues[k] IN
              /\ \E i \in ProblemEdges : result.edges[i] = issue.edge
              /\ issue.level = getEdgeAccessibilityLevel(issue.edge, profile)
              /\ {issue.reasons[j] : j \in DOMAIN issue.reasons}
                    = {r \in ReasonTags : ReasonApplies(r, issue.edge)}
              /\ Len(issue.reasons) = Cardinality({issue.reasons[j] : j \in DOMAIN issue.reasons})

\* C16 witness: a returned route with an accessible edge, an issue of one reason
\* and an issue of two reasons.
C16_Witness ==
    /\ RouteReturned
    /\ Len(result.edges) > Len(result.issues)
    /\ \E k \in DOMAIN result.issues : Len(result.issues[k].reasons) = 1
    /\ \E k \in DOMAIN result.issues : Len(result.issues[k].reasons) > 1

RECURSIVE ChainEnds(_, _)
\* following the back-pointers from n reaches a node without one in at most k steps
ChainEnds(n, k) ==
    IF ~MapHas(cameFrom, n) THEN TRUE
    ELSE IF k = 0 THEN FALSE
    ELSE ChainEnds(cameFrom[n], k - 1)

\* the back-pointers contain no cycle
BackPointersAcyclic ==
    \A n \in DOMAIN cameFrom : ChainEnds(n, Cardinality(DOMAIN cameFrom))

\* one more than the summed weight of the whole edge list: above every cost the
\* search can record, a recorded cost being the weight of a path without repetition
CostCeiling == 1 + SumSeq([i \in DOMAIN edges |-> calculateEdgeWeight(edges[i], profile)])

\* the sum over all ids of the cost recorded in gs, CostCeiling where there is none
CostSum(gs) ==
    LET ids == AllIds
        cost(n) == IF MapHas(gs, n) THEN gs[n] ELSE CostCeiling
        pick(S) == CHOOSE n \in S : TRUE
        sum[S \in SUBSET ids] == IF S = {} THEN 0 ELSE cost(pick(S)) + sum[S \ {pick(S)}]
    IN  sum[ids]

\* a pass of the loop that does not leave it lowers the pair (CostSum, open-set
\* length) in the lexicographic order on pairs of naturals
PassMakesProgress ==
    (pc = "search" /\ pc' = "search") =>
        /\ CostSum(gScore') >= 0
        /\ \/ CostSum(gScore') < CostSum(gScore)
           \/ CostSum(gScore') = CostSum(gScore) /\ Len(openSet') < Len(openSet)

\* a pass of the loop goes on with the loop or returns
PassStaysOrReturns == pc = "search" => pc' \in {"search", "returned"}

\* C17: the search loop reaches a return (goal extracted or open set empty) after
\* finitely many extractions: every pass of the loop either returns or goes on
\* having lowered a well-founded measure, also when it puts an extracted node back;
\* and the back-pointers contain no cycle, so the walk of reconstructPath ends.
C17_Termination ==
    [][PassMakesProgress /\ PassStaysOrReturns /\ BackPointersAcyclic']_vars

\* every pass lowers the measure or ends the call, by a return or by an exception,
\* and the back-pointers stay acyclic (not the claim: a lemma)
EveryPassMakesProgress == [][PassMakesProgress /\ BackPointersAcyclic']_vars

\* C17 on the networks whose edges all join listed nodes (not the claim: a lemma)
TerminationWithoutDanglingEdges ==
    [][NoDanglingEdge => (PassMakesProgress /\ PassStaysOrReturns /\ BackPointersAcyclic')]_vars

\* a node was extracted more than once: it was put back after an improvement
Reinserted == extractions > Cardinality(DOMAIN gScore)

\* C18: findAccessibleRoute never throws, whatever the start and end ids and the
\* profile, also on a network with an edge to an id that is not in the node list:
\* it returns an object with a path, empty (with or without notFound) or a route.
C18_Totality ==
    /\ pc # "threw"
    /\ pc = "returned" =>
          /\ "path" \in result.keys
          /\ result \in {BadInputResult, NotFoundResult} \/ result.path # << >>

Built == pc = "ready"

\* the adjacency entries of the whole index that hold edge e
EntriesOf(e) ==
    {<<id, k>> \in UNION {{id} \X DOMAIN graph[id] : id \in DOMAIN graph} :
        graph[id][k].edge = e}

Malformed(e) == e.distance < 0 \/ e.from = e.to

\* C19: buildAdjacencyList rejects malformed edge data: an edge of negative
\* distance or with identical endpoints is in no adjacency entry of the index a
\* query uses.
C19_MalformedEdgesRejected ==
    Built => \A i \in DOMAIN edges : Malformed(edges[i]) => EntriesOf(edges[i]) = {}

\* how often edge e occurs in the edge list
Occurrences(e) == Cardinality({i \in DOMAIN edges : edges[i] = e})

\* the entries of e in the list of node id that name neighbor nb
EntriesAt(e, id, nb) ==
    IF MapHas(graph, id)
    THEN {<<id, k>> : k \in {k \in DOMAIN graph[id] : graph[id][k] = [to |-> nb, edge |-> e]}}
    ELSE {}

\* every entry of the index holds an edge of the edge list at one of its endpoints
\* and names the other endpoint as neighbor
OnlyEdgeEntries ==
    \A id \in DOMAIN graph : \A k \in DOMAIN graph[id] :
        LET entry == graph[id][k] IN
        /\ \E i \in DOMAIN edges : edges[i] = entry.edge
        /\ \/ entry.edge.from = id /\ entry.to = entry.edge.to
           \/ entry.edge.to = id /\ entry.to = entry.edge.from

ListedEndpoints(e) ==
    (IF e.from \in KnownIds THEN 1 ELSE 0) + (IF e.to \in KnownIds THEN 1 ELSE 0)

----------------------------------------------------------------------------
\* C21: running a query changes none of its inputs: from the moment the index
\* is built, no step of findAccessibleRoute (reconstructPath included) changes
\* the graph, the node list, the edge records or the profile.
C21_InputsNotMutated ==
    [][pc # "raw" => UNCHANGED <<graph, nodes, edges, profile>>]_vars

\* a query has expanded nodes, walked the back-pointers and reported issues,
\* and the index is still the one built from the edge list
C21_Witness ==
    /\ RouteReturned
    /\ Len(result.path) >= 3
    /\ result.issues # << >>
    /\ graph = buildAdjacencyList(nodes, edges)

----------------------------------------------------------------------------
(* Two calls of findAccessibleRoute over the same graph, node list and      *)
(* endpoints, each with its own profile and its own locals (lines 166-172), *)
(* their loop passes interleaved in any order.                              *)

\* the locals of the second call, as a search state
SecondState ==
    [pc |-> second.pc, openSet |-> second.openSet, cameFrom |-> second.cameFrom,
     gScore |-> second.gScore, edgeUsed |-> second.edgeUsed,
     extractions |-> second.extractions, result |-> second.result]

\* the second call's locals become those of search state st
InstallSecond(st) ==
    second' = [profile |-> second.profile, pc |-> st.pc, openSet |-> st.openSet,
               cameFrom |-> st.cameFrom, gScore |-> st.gScore, edgeUsed |-> st.edgeUsed,
               extractions |-> st.extractions, result |-> st.result]

PairInit ==
    /\ \E es \in UnitNetworks, prof \in SearchProfiles :
           Inputs(MkInput(NodeList(0, 0), es, prof, 1, 3))
    /\ graph = EmptyMap
    /\ pc = "raw"
    /\ SearchIdle
    /\ callEdge = NoCall
    /\ callOut = NoOut
    /\ \E prof \in SearchProfiles : second = [NoSecond EXCEPT !.profile = prof, !.pc = "ready"]

\* the second call starts: lines 152-172
SecondBegin ==
    /\ pc # "raw"
    /\ second.pc = "ready"
    /\ InstallSecond(BeginSearch(nodes, startId, endId))
    /\ UNCHANGED <<nodes, edges, graph, profile, startId, endId, pc, openSet, cameFrom,
                   gScore, edgeUsed, extractions, result, callEdge, callOut>>

\* a pass of the second call that reads and writes the first call's gScore map
SecondIterate_SharedCosts ==
    /\ second.pc = "search"
    /\ second.openSet # << >>
    /\ LET shared == [n \in DOMAIN gScore \cup DOMAIN second.gScore |->
                         IF n \in DOMAIN gScore THEN gScore[n] ELSE second.gScore[n]]
           st == SearchStep([SecondState EXCEPT !.gScore = shared],
                            graph, nodes, endId, second.profile)
       IN  /\ InstallSecond(st)
           /\ gScore' = st.gScore
    /\ UNCHANGED <<nodes, edges, graph, profile, startId, endId, pc, openSet, cameFrom,
                   edgeUsed, extractions, result, callEdge, callOut>>

\* one pass of the second call's while loop, lines 174-207
SecondIterate ==
    /\ second.pc = "search"
    /\ second.openSet # << >>
    /\ InstallSecond(SearchStep(SecondState, graph, nodes, endId, second.profile))
    /\ UNCHANGED <<nodes, edges, graph, profile, startId, endId, pc, openSet, cameFrom,
                   gScore, edgeUsed, extractions, result, callEdge, callOut>>

\* the second call's loop ends with its open set empty: line 210
SecondGiveUp ==
    /\ second.pc = "search"
    /\ second.openSet = << >>
    /\ InstallSecond(SearchStep(SecondState, graph, nodes, endId, second.profile))
    /\ UNCHANGED <<nodes, edges, graph, profile, startId, endId, pc, openSet, cameFrom,
                   gScore, edgeUsed, extractions, result, callEdge, callOut>>

PairNext ==
    BuildGraph \/ Begin \/ Iterate \/ GiveUp \/ SecondBegin \/ SecondIterate \/ SecondGiveUp

PairSpec == PairInit /\ [][PairNext]_vars

SecondFinished == second.pc \in {"returned", "threw"}

\* how a call ended and what it returned
Outcome(st) == [pc |-> st.pc, result |-> st.result]

C22_RepeatWitness ==
    /\ RouteReturned
    /\ second.pc = "returned" /\ second.profile = profile
    /\ second.result = result /\ Len(result.path) = 3

----------------------------------------------------------------------------
(* Queries from node 1 to node 3 over every network, with node 4 placed   *)
(* north of the other nodes, so that the heuristic is not constant.        *)
GeoInit ==
    /\ \E k \in {1, MaxLat}, es \in Networks(1..MaxDist, {<< >>}),
          prof \in {defaultProfile, strollerProfile} :
           Inputs(MkInput(NodeList(4, k), es, prof, 1, 3))
    /\ graph = EmptyMap
    /\ pc = "raw"
    /\ SearchIdle
    /\ callEdge = NoCall
    /\ callOut = NoOut
    /\ second = NoSecond

GeoSpec == GeoInit /\ [][Next]_vars

\* the nodes of the node list the finished search has reached
ReachedNodes == DOMAIN gScore \cap KnownIds

\* at every reached node the heuristic is at most the least summed weight of a
\* gate-passing path from the node to the goal (no bound where there is none)
HeuristicNeverOverestimates ==
    (pc = "returned" /\ endId \in KnownIds /\ gScore # EmptyMap) =>
        LET least == LeastCosts(endId, profile)
        IN  \A n \in ReachedNodes :
                least[n] # Infinity => heuristic(nodes, n, endId) <= least[n]

\* C23 as stated: the heuristic is admissible at every reached node on every
\* network, whatever the edges' distance attributes.
C23_HeuristicAdmissible == HeuristicNeverOverestimates

\* C23 amended: the heuristic is admissible at every reached node when every
\* edge joins two listed nodes and its distance is at least the straight line
\* between them.
C23_AdmissibleWithGeometricDistances ==
    (NoDanglingEdge /\ GeometricDistances) => HeuristicNeverOverestimates

\* a search over geometric distances has reached node 4, one metre north of the
\* goal, where the heuristic equals the least cost to the goal
C23_Witness ==
    /\ pc = "returned" /\ NoDanglingEdge /\ GeometricDistances
    /\ 4 \in ReachedNodes
    /\ heuristic(nodes, 4, endId) = WeightScale
    /\ LeastCosts(endId, profile)[4] = WeightScale

----------------------------------------------------------------------------
\* C24: decrease-key: at every extraction, each open-set entry's stored
\* f-score equals the node's current best-known cost plus its heuristic (an
\* improved neighbor that is already queued gets its f-score renewed).
C24_DecreaseKey ==
    pc = "search" =>
        \A k \in DOMAIN openSet :
            openSet[k].fScore =
                gScore[openSet[k].id] + heuristic(nodes, openSet[k].id, endId)

----------------------------------------------------------------------------
\* the adjacency list of node n holds an entry towards m carrying edge record e
HasEntry(n, m, e) == \E k \in DOMAIN graph[n] : graph[n][k] = [to |-> m, edge |-> e]

\* the same query with start and end exchanged, run on the same graph
ReverseQuery == findAccessibleRoute(graph, nodes, endId, startId, profile)

\* C25: undirected traversal: every edge joining two known nodes is listed at
\* both endpoints with the same edge record (hence the same verdict and
\* weight in both directions), and a query between two present nodes finds a
\* route if and only if the query in the opposite direction finds one.
C25_UndirectedTraversal ==
    /\ pc # "raw" =>
           \A i \in DOMAIN edges :
               (edges[i].from \in KnownIds /\ edges[i].to \in KnownIds) =>
                   /\ HasEntry(edges[i].from, edges[i].to, edges[i])
                   /\ HasEntry(edges[i].to, edges[i].from, edges[i])
    /\ (Finished /\ startId \in KnownIds /\ endId \in KnownIds) =>
           (RouteReturned <=>
               (ReverseQuery.pc = "returned" /\ ReverseQuery.result.keys = RouteKeys))

\* the same on networks whose edges all join nodes of the node list
UndirectedTraversalWithoutDanglingEdges == NoDanglingEdge => C25_UndirectedTraversal

\* a route was found between two different nodes over at least two edges, and
\* the opposite query finds one too
UndirectedTraversalReached ==
    /\ RouteReturned /\ NoDanglingEdge /\ Len(result.path) >= 3
    /\ ReverseQuery.pc = "returned" /\ ReverseQuery.result.keys = RouteKeys
    /\ ReverseQuery.result.path # result.path

----------------------------------------------------------------------------
\* C26: for every found route the accessibility score is an integer between
\* 60 and 100, every edge of the route is classified accessible or partial,
\* and no issue record has level 'inaccessible'.
C26_FoundRouteScoreAndLevels ==
    RouteReturned =>
        /\ result.accessibilityScore \in 60..100
        /\ \A i \in DOMAIN result.edges :
              getEdgeAccessibilityLevel(result.edges[i], profile) \in {"accessible", "partial"}
        /\ \A k \in DOMAIN result.issues : result.issues[k].level = "partial"

\* a found route with a partial edge and a score strictly between 60 and 100
C26_Witness ==
    /\ RouteReturned
    /\ result.issues # << >>
    /\ result.accessibilityScore > 60 /\ result.accessibilityScore < 100

\* over the whole edge domain: an edge that passes the gate is not classified
\* inaccessible (lemma for C26, checked under EdgeSpec)
GatePassingEdgesNotInaccessible ==
    (pc = "evaluated" /\ callOut.accessible) => callOut.level \in {"accessible", "partial"}

----------------------------------------------------------------------------
\* C27: every issue record of a found route has a non-empty reasons list.
C27_IssuesHaveReasons ==
    RouteReturned => \A k \in DOMAIN result.issues : result.issues[k].reasons # << >>

\* a found route with an issue whose only reason is the slope and an issue
\* whose only reason is the temporary tag
C27_Witness ==
    /\ RouteReturned
    /\ \E k \in DOMAIN result.issues : result.issues[k].reasons = << "slope" >>
    /\ \E k \in DOMAIN result.issues : result.issues[k].reasons = << "temporary" >>

\* over the whole edge domain: every condition that classifies a gate-passing
\* edge partial adds a reason (lemma for C27, checked under EdgeSpec)
PartialEdgesHaveReasons ==
    (pc = "evaluated" /\ callOut.level = "partial") => IssueReasons(callEdge) # << >>

\* a gate-passing gravel edge without any other barrier has been classified
PartialBySurfaceReached ==
    /\ pc = "evaluated" /\ callOut.level = "partial"
    /\ IssueReasons(callEdge) = << "surface" >>

----------------------------------------------------------------------------
\* the position in the returned edges of the edge of the k-th issue
IssuePosition(k) == CHOOSE i \in DOMAIN result.edges : result.edges[i] = result.issues[k].edge

\* C28: the issues of a found route are in goal-to-start order: of two issue
\* records, the earlier one is about the edge that comes later in edges.
C28_IssuesGoalToStart ==
    RouteReturned =>
        \A k, l \in DOMAIN result.issues :
            k < l => IssuePosition(k) > IssuePosition(l)

\* a found route with two problem edges: the first issue is about the later edge
C28_Witness ==
    /\ RouteReturned
    /\ Len(result.issues) = 2
    /\ result.issues[1].edge = result.edges[Len(result.edges)]
    /\ result.issues[2].edge = result.edges[1]
    /\ result.edges[1].to = result.path[2]

----------------------------------------------------------------------------
\* every back-pointer is backed by its edge and the recorded costs; the start
\* node has cost 0 and no back-pointer
BackPointersConsistent ==
    /\ \A n \in DOMAIN cameFrom :
          /\ MapHas(gScore, n) /\ MapHas(gScore, cameFrom[n]) /\ MapHas(edgeUsed, n)
          /\ gScore[n] >= gScore[cameFrom[n]] + calculateEdgeWeight(edgeUsed[n], profile)
          /\ Joins(edgeUsed[n], cameFrom[n], n)
    /\ MapHas(gScore, startId) /\ gScore[startId] = 0
    /\ ~MapHas(cameFrom, startId)

\* no recorded cost is dropped or raised by the step
NoCostIncrease ==
    \A n \in DOMAIN gScore : MapHas(gScore', n) /\ gScore'[n] <= gScore[n]

\* C29: in every state of the loop each back-pointer n satisfies gScore[n] >=
\* gScore[cameFrom[n]] + weight(edgeUsed[n]) with edgeUsed[n] joining
\* cameFrom[n] and n, the start node keeps cost 0 and gets no back-pointer,
\* and no step increases a node's gScore.
C29_BackPointerConsistency ==
    [][(pc' = "search" => BackPointersConsistent') /\ NoCostIncrease]_vars

\* in the loop, a node's recorded cost exceeds its back-pointer's cost plus the
\* edge weight: the back-pointer's own cost was lowered after the node was set
C29_Witness ==
    /\ pc = "search"
    /\ \E n \in DOMAIN cameFrom :
          gScore[n] > gScore[cameFrom[n]] + calculateEdgeWeight(edgeUsed[n], profile)

\* C30: in every state of the search loop the open set holds at most one
\* entry per node id, and every queued node has a recorded best-known cost.
C30_OpenSetEntriesUnique ==
    pc = "search" =>
        /\ \A k, l \in DOMAIN openSet : openSet[k].id = openSet[l].id => k = l
        /\ \A k \in DOMAIN openSet : MapHas(gScore, openSet[k].id)

\* in the loop, a queued node has had its cost improved while it stayed queued
\* once, with another node queued beside it
C30_Witness ==
    /\ pc = "search"
    /\ Len(openSet) >= 2
    /\ \E k \in DOMAIN openSet :
          openSet[k].fScore >
              gScore[openSet[k].id] + heuristic(nodes, openSet[k].id, endId)

====
